---- MODULE Spec2Model ----
(***************************************************************************)
(* Model of the limit order book of thenaveensharma/exchange               *)
(* (src/orderbook/orderbook.go).                                           *)
(*                                                                         *)
(* Heap objects are modelled by identity: an *Order is a key of `orders`   *)
(* (its number in order of creation), a *Limit is a key of `limits`.  An   *)
(* object is on the heap while something refers to it.  float64 sizes and  *)
(* prices are modelled as integers (fixed-point units).  In Spec and       *)
(* SpecAnySize every call of the book's API is one atomic action (one      *)
(* caller at a time); in SpecHandlers the HTTP handlers run in goroutines  *)
(* whose steps interleave.                                                 *)
(***************************************************************************)
EXTENDS Integers, Sequences, FiniteSets, TLC

\* ---- bounds of the model -------------------------------------------------
MaxOrders == 3      \* number of Order objects ever created
MaxPrice  == 2      \* prices are 1..MaxPrice
MaxSize   == 2      \* initial sizes are 1..MaxSize
MaxHandlers == 2    \* handler goroutines that can serve requests at once

Prices == 1..MaxPrice
Sizes  == 1..MaxSize

\* the nil *Limit
NoLimit == 0

\* the goroutines the HTTP server runs the handlers in, one per request
Handlers == 1..MaxHandlers

VARIABLES
    orders,     \* heap of live Order objects: number -> [Size, Bid, Limit, Timestamp]
    created,    \* number of Order objects created so far
    limits,     \* heap of live Limit objects: id -> [Price, Orders, TotalVolume]
    asks,       \* Orderbook.asks : sequence of Limit ids
    bids,       \* Orderbook.bids : sequence of Limit ids
    AskLimits,  \* Orderbook.AskLimits : price -> Limit id or NoLimit
    BidLimits,  \* Orderbook.BidLimits : price -> Limit id or NoLimit
    clock,      \* last reading of time.Now(), counted in distinct readings
    matches,    \* the Matches produced by the Fill calls of the last call
    lastOp,     \* the last API call and its arguments
    panicked,   \* the last call panicked (nothing in the package recovers)
    inflight    \* the HTTP handler goroutines: where each is and its locals

vars == <<orders, created, limits, asks, bids, AskLimits, BidLimits, clock, matches,
          lastOp, panicked, inflight>>

\* ---- Order ---------------------------------------------------------------
\* what time.Now().UnixNano() can return after it returned last: the same
\* reading again (a coarse clock), or a later one.  Only the order of the
\* readings matters to the book, so a later reading is the next number, and
\* the first reading is the origin.
Now(last, first) == IF first THEN {last} ELSE {last, last + 1}

NewOrder(bid, size, t) ==
    [Size |-> size, Bid |-> bid, Limit |-> NoLimit, Timestamp |-> t]

IsFilled(b, o) == b.orders[o].Size = 0

\* ---- generic slice helpers -------------------------------------------------
\* index of the first element equal to x, 0 when there is none
\* (the `for index, v := range s { if v == x {...; break} }` idiom)
IndexOf(s, x) ==
    IF \E i \in 1..Len(s) : s[i] = x
    THEN CHOOSE i \in 1..Len(s) : s[i] = x /\ \A j \in 1..(i-1) : s[j] # x
    ELSE 0

\* s[index] = s[len(s)-1]; s = s[:len(s)-1]   (nothing when index = 0)
SwapRemove(s, index) ==
    IF index = 0 THEN s
    ELSE [i \in 1..(Len(s)-1) |-> IF i = index THEN s[Len(s)] ELSE s[i]]

\* ---- sort.Sort(Orders) -----------------------------------------------------
\* Orders.Less
OrdersLess(b, x, y) == b.orders[x].Timestamp < b.orders[y].Timestamp

\* sort.Sort runs insertion sort on slices of at most 12 elements: each
\* element moves left while it is Less than its left neighbour.
RECURSIVE InsertOrder(_, _, _)
InsertOrder(b, s, x) ==
    IF s = <<>> THEN <<x>>
    ELSE IF OrdersLess(b, x, s[Len(s)])
         THEN Append(InsertOrder(b, SubSeq(s, 1, Len(s)-1), x), s[Len(s)])
         ELSE Append(s, x)

RECURSIVE SortOrders(_, _)
SortOrders(b, s) ==
    IF s = <<>> THEN <<>>
    ELSE InsertOrder(b, SortOrders(b, SubSeq(s, 1, Len(s)-1)), s[Len(s)])

\* ---- Limit -----------------------------------------------------------------
NewLimit(price) == [Price |-> price, Orders |-> <<>>, TotalVolume |-> 0]

\* AddOrder putting the order at the head of the level
AddOrder_Prepends(b, l, o) ==
    [b EXCEPT !.orders[o].Limit = l,
              !.limits[l].Orders = <<o>> \o @,
              !.limits[l].TotalVolume = @ + b.orders[o].Size]

AddOrder(b, l, o) ==
    [b EXCEPT !.orders[o].Limit = l,
              !.limits[l].Orders = Append(@, o),
              !.limits[l].TotalVolume = @ + b.orders[o].Size]

\* DeleteOrder without `l.TotalVolume -= o.Size`
DeleteOrder_KeepsVolume(b, l, o) ==
    LET removed == SwapRemove(b.limits[l].Orders, IndexOf(b.limits[l].Orders, o))
    IN  [b EXCEPT !.orders[o].Limit = NoLimit,
                  !.limits[l].Orders = SortOrders(b, removed)]

\* DeleteOrder without `o.Limit = nil`
DeleteOrder_KeepsLimit(b, l, o) ==
    LET removed == SwapRemove(b.limits[l].Orders, IndexOf(b.limits[l].Orders, o))
    IN  [b EXCEPT !.limits[l].TotalVolume = @ - b.orders[o].Size,
                  !.limits[l].Orders = SortOrders(b, removed)]

DeleteOrder(b, l, o) ==
    LET removed == SwapRemove(b.limits[l].Orders, IndexOf(b.limits[l].Orders, o))
    IN  [b EXCEPT !.orders[o].Limit = NoLimit,
                  !.limits[l].TotalVolume = @ - b.orders[o].Size,
                  !.limits[l].Orders = SortOrders(b, removed)]

\* FillOrder reading newOrder.Size for sizeFilled after zeroing it
FillOrder_ReadsAfterZero(b, l, existingOrder, newOrder) ==
    LET e    == b.orders[existingOrder]
        n    == b.orders[newOrder]
        bid  == IF n.Bid THEN newOrder ELSE existingOrder
        ask  == IF n.Bid THEN existingOrder ELSE newOrder
        sizeFilled == IF e.Size >= n.Size THEN 0 ELSE e.Size
        b1   == IF e.Size >= n.Size
                THEN [b EXCEPT !.orders[existingOrder].Size = @ - n.Size,
                               !.orders[newOrder].Size = 0]
                ELSE [b EXCEPT !.orders[newOrder].Size = @ - e.Size,
                               !.orders[existingOrder].Size = 0]
    IN  [b |-> b1,
         match |-> [Ask |-> ask, Bid |-> bid, SizeFilled |-> sizeFilled,
                    Price |-> b.limits[l].Price]]

\* FillOrder choosing bid and ask by the side of the resting order
FillOrder_SwapsSides(b, l, existingOrder, newOrder) ==
    LET e    == b.orders[existingOrder]
        n    == b.orders[newOrder]
        bid  == IF e.Bid THEN newOrder ELSE existingOrder
        ask  == IF e.Bid THEN existingOrder ELSE newOrder
        sizeFilled == IF e.Size >= n.Size THEN n.Size ELSE e.Size
        b1   == IF e.Size >= n.Size
                THEN [b EXCEPT !.orders[existingOrder].Size = @ - n.Size,
                               !.orders[newOrder].Size = 0]
                ELSE [b EXCEPT !.orders[newOrder].Size = @ - e.Size,
                               !.orders[existingOrder].Size = 0]
    IN  [b |-> b1,
         match |-> [Ask |-> ask, Bid |-> bid, SizeFilled |-> sizeFilled,
                    Price |-> b.limits[l].Price]]

\* FillOrder: the new state of the two orders and the Match
FillOrder(b, l, existingOrder, newOrder) ==
    LET e    == b.orders[existingOrder]
        n    == b.orders[newOrder]
        bid  == IF n.Bid THEN newOrder ELSE existingOrder
        ask  == IF n.Bid THEN existingOrder ELSE newOrder
        sizeFilled == IF e.Size >= n.Size THEN n.Size ELSE e.Size
        b1   == IF e.Size >= n.Size
                THEN [b EXCEPT !.orders[existingOrder].Size = @ - n.Size,
                               !.orders[newOrder].Size = 0]
                ELSE [b EXCEPT !.orders[newOrder].Size = @ - e.Size,
                               !.orders[existingOrder].Size = 0]
    IN  [b |-> b1,
         match |-> [Ask |-> ask, Bid |-> bid, SizeFilled |-> sizeFilled,
                    Price |-> b.limits[l].Price]]

\* The body of the first loop of Fill for `order`, f being what FillOrder
\* returned: the level's volume, the matches and the orders to delete.
FillStep(l, order, ms, ordersToDelete, f) ==
    [b |-> [f.b EXCEPT !.limits[l].TotalVolume = @ - f.match.SizeFilled],
     matches |-> Append(ms, f.match),
     ordersToDelete |-> IF IsFilled(f.b, order)
                        THEN Append(ordersToDelete, order)
                        ELSE ordersToDelete]

\* The first loop of Fill, over the orders of the level from index i on, and
\* its `if o.IsFilled() { break }`; s holds the book, the matches and the
\* orders to delete so far.
RECURSIVE FillLoop(_, _, _, _)
RECURSIVE FillBreak(_, _, _, _)
FillLoop(l, o, i, s) ==
    IF i > Len(s.b.limits[l].Orders) THEN s
    ELSE FillBreak(l, o, i,
                   FillStep(l, s.b.limits[l].Orders[i], s.matches,
                            s.ordersToDelete,
                            FillOrder(s.b, l, s.b.limits[l].Orders[i], o)))

FillBreak(l, o, i, s) ==
    IF IsFilled(s.b, o) THEN s ELSE FillLoop(l, o, i + 1, s)

\* the second loop of Fill
RECURSIVE DeleteOrders(_, _, _)
DeleteOrders(b, l, ordersToDelete) ==
    IF ordersToDelete = <<>> THEN b
    ELSE DeleteOrders(DeleteOrder(b, l, Head(ordersToDelete)), l,
                      Tail(ordersToDelete))

\* the second loop of Fill and its result, r being the result of the first
FillDelete(l, r) ==
    [b |-> DeleteOrders(r.b, l, r.ordersToDelete), matches |-> r.matches]

Fill(b, l, o) ==
    FillDelete(l, FillLoop(l, o, 1,
                           [b |-> b, matches |-> <<>>, ordersToDelete |-> <<>>]))

\* ---- sort.Sort(ByBestAsk) / sort.Sort(ByBestBid) ---------------------------
\* ByBestAsk.Less with the comparison of ByBestBid.Less
ByBestAskLess_Descending(b, x, y) == b.limits[x].Price > b.limits[y].Price

\* ByBestAsk.Less
ByBestAskLess(b, x, y) == b.limits[x].Price < b.limits[y].Price

\* ByBestBid.Less comparing with `<`
ByBestBidLess_Ascending(b, x, y) == b.limits[x].Price < b.limits[y].Price

\* ByBestBid.Less
ByBestBidLess(b, x, y) == b.limits[x].Price > b.limits[y].Price

RECURSIVE InsertLimit(_, _, _, _)
InsertLimit(b, bestBid, s, x) ==
    IF s = <<>> THEN <<x>>
    ELSE IF (IF bestBid THEN ByBestBidLess(b, x, s[Len(s)])
                        ELSE ByBestAskLess(b, x, s[Len(s)]))
         THEN Append(InsertLimit(b, bestBid, SubSeq(s, 1, Len(s)-1), x), s[Len(s)])
         ELSE Append(s, x)

RECURSIVE SortLimits(_, _, _)
SortLimits(b, bestBid, s) ==
    IF s = <<>> THEN <<>>
    ELSE InsertLimit(b, bestBid, SortLimits(b, bestBid, SubSeq(s, 1, Len(s)-1)),
                     s[Len(s)])

\* ---- Orderbook ---------------------------------------------------------------
\* Asks() and Bids() sort the book's own slice in place and return it
Asks(b) == [b EXCEPT !.asks = SortLimits(b, FALSE, b.asks)]
Bids(b) == [b EXCEPT !.bids = SortLimits(b, TRUE, b.bids)]

RECURSIVE SumVolume(_, _)
SumVolume(b, s) ==
    IF s = <<>> THEN 0
    ELSE b.limits[Head(s)].TotalVolume + SumVolume(b, Tail(s))

BidTotalVolume(b) == SumVolume(b, b.bids)
AskTotalVolume(b) == SumVolume(b, b.asks)

\* clearLimit without the delete of the price map's entry
clearLimit_KeepsMapEntry(b, bid, l) ==
    IF bid
    THEN [b EXCEPT !.bids = SwapRemove(b.bids, IndexOf(b.bids, l))]
    ELSE [b EXCEPT !.asks = SwapRemove(b.asks, IndexOf(b.asks, l))]

clearLimit(b, bid, l) ==
    IF bid
    THEN [b EXCEPT !.BidLimits[b.limits[l].Price] = NoLimit,
                   !.bids = SwapRemove(b.bids, IndexOf(b.bids, l))]
    ELSE [b EXCEPT !.AskLimits[b.limits[l].Price] = NoLimit,
                   !.asks = SwapRemove(b.asks, IndexOf(b.asks, l))]

\* (RangeAfterClear_LiveSlice, below: a loop that re-reads the shrunk slice.)
\* A `for _, limit := range s` loop keeps reading the backing array of s with
\* the length s had when the loop started.  clearLimit writes into that array
\* when it removes from the slice being ranged over: this is the array as the
\* loop sees it afterwards.
RangeAfterClear_LiveSlice(rng, list, l) == SwapRemove(list, IndexOf(list, l))

RangeAfterClear(rng, list, l) ==
    IF IndexOf(list, l) = 0 THEN rng
    ELSE [rng EXCEPT ![IndexOf(list, l)] = list[Len(list)]]

\* the flag PlaceMarketOrder passes to clearLimit for an aggressor of side bid
MarketClearFlag(bid) == bid

\* PlaceLimitOrder passing the incoming order's own side, as PlaceMarketOrder does
LimitClearFlag_OwnSide(bid) == bid

\* the flag PlaceLimitOrder passes to clearLimit for an incoming order of side bid
LimitClearFlag(bid) == ~bid

\* The body of the loop of PlaceMarketOrder for `limit`, f being what Fill
\* returned: the book after the clean-up, the matches, and the ranged slice
\* (bids for an ask aggressor, asks for a bid) as the loop sees it next.
MarketStep(o, rng, limit, ms, f) ==
    [b |-> IF Len(f.b.limits[limit].Orders) = 0
           THEN clearLimit(f.b, MarketClearFlag(f.b.orders[o].Bid), limit)
           ELSE f.b,
     matches |-> ms \o f.matches,
     rng |-> IF /\ Len(f.b.limits[limit].Orders) = 0
                /\ MarketClearFlag(f.b.orders[o].Bid) = ~f.b.orders[o].Bid
             THEN RangeAfterClear(rng, IF f.b.orders[o].Bid THEN f.b.asks
                                                           ELSE f.b.bids, limit)
             ELSE rng]

\* the loop of PlaceMarketOrder over s.rng (= ob.Asks() or ob.Bids()) from
\* index i on
RECURSIVE MarketLoop(_, _, _)
MarketLoop(o, i, s) ==
    IF i > Len(s.rng) THEN s
    ELSE MarketLoop(o, i + 1,
                    MarketStep(o, s.rng, s.rng[i], s.matches,
                               Fill(s.b, s.rng[i], o)))

\* PlaceMarketOrder: panics when the opposite side's volume is too small
MarketPanics(b, o) ==
    IF b.orders[o].Bid THEN b.orders[o].Size > AskTotalVolume(b)
    ELSE b.orders[o].Size > BidTotalVolume(b)

\* the loop of PlaceMarketOrder, entered with the sorted book
MarketWalk(o, sorted) ==
    MarketLoop(o, 1, [b |-> sorted, matches |-> <<>>,
                      rng |-> IF sorted.orders[o].Bid THEN sorted.asks
                                                      ELSE sorted.bids])

PlaceMarketOrder(b, o) ==
    MarketWalk(o, IF b.orders[o].Bid THEN Asks(b) ELSE Bids(b))

\* CancelOrder dereferences o.Limit: a nil pointer dereference when it is nil
CancelPanics(b, o) == b.orders[o].Limit = NoLimit

CancelOrder(b, o) == DeleteOrder(b, b.orders[o].Limit, o)

\* The body of the crossing loop of PlaceLimitOrder for `limit`, f being
\* what Fill returned: the book after the clean-up, the matches, and the
\* ranged slice as the loop sees it next.
LimitStep(o, rng, limit, ms, f) ==
    [b |-> IF Len(f.b.limits[limit].Orders) = 0
           THEN clearLimit(f.b, LimitClearFlag(f.b.orders[o].Bid), limit)
           ELSE f.b,
     matches |-> ms \o f.matches,
     rng |-> IF /\ Len(f.b.limits[limit].Orders) = 0
                /\ LimitClearFlag(f.b.orders[o].Bid) = ~f.b.orders[o].Bid
             THEN RangeAfterClear(rng, IF f.b.orders[o].Bid THEN f.b.asks
                                                           ELSE f.b.bids, limit)
             ELSE rng]

\* The crossing loop of PlaceLimitOrder over s.rng from index i on, with its
\* `break` at the first level that is not marketable and its `return` when
\* the order is filled.
RECURSIVE LimitLoop(_, _, _, _)
RECURSIVE LimitReturn(_, _, _, _)
LimitLoop(price, o, i, s) ==
    IF i > Len(s.rng) THEN s
    ELSE IF (IF s.b.orders[o].Bid THEN s.b.limits[s.rng[i]].Price > price
                                  ELSE s.b.limits[s.rng[i]].Price < price)
         THEN s
         ELSE LimitReturn(price, o, i,
                          LimitStep(o, s.rng, s.rng[i], s.matches,
                                    Fill(s.b, s.rng[i], o)))

LimitReturn(price, o, i, s) ==
    IF IsFilled(s.b, o) THEN s ELSE LimitLoop(price, o, i + 1, s)

\* the id NewLimit's allocation gets: the least one that names no live Limit
FreshLimit(b) ==
    CHOOSE l \in 1..(Cardinality(DOMAIN b.limits) + 1) :
        /\ l \notin DOMAIN b.limits
        /\ \A k \in 1..(l-1) : k \in DOMAIN b.limits

\* the tail of PlaceLimitOrder: rest what is left of the order
RestOrder(b, price, o) ==
    IF IsFilled(b, o) THEN b
    ELSE LET bid   == b.orders[o].Bid
             found == IF bid THEN b.BidLimits[price] ELSE b.AskLimits[price]
             limit == IF found = NoLimit THEN FreshLimit(b) ELSE found
             b1    == IF found # NoLimit THEN b
                      ELSE LET withLimit ==
                                   [b EXCEPT !.limits =
                                       [k \in DOMAIN b.limits \cup {limit} |->
                                          IF k = limit THEN NewLimit(price)
                                          ELSE b.limits[k]]]
                           IN  IF bid
                               THEN [withLimit EXCEPT !.bids = Append(@, limit),
                                                      !.BidLimits[price] = limit]
                               ELSE [withLimit EXCEPT !.asks = Append(@, limit),
                                                      !.AskLimits[price] = limit]
         IN  AddOrder(b1, limit, o)

\* the crossing loop of PlaceLimitOrder, entered with the sorted book
LimitWalk(price, o, sorted) ==
    LimitLoop(price, o, 1, [b |-> sorted, matches |-> <<>>,
                            rng |-> IF sorted.orders[o].Bid THEN sorted.asks
                                                            ELSE sorted.bids])

\* the crossing loop's result r, then the resting of what is left
LimitRest(price, o, r) ==
    [b |-> RestOrder(r.b, price, o), matches |-> r.matches]

PlaceLimitOrder(b, price, o) ==
    LimitRest(price, o,
              LimitWalk(price, o, IF b.orders[o].Bid THEN Asks(b) ELSE Bids(b)))

\* ---- the garbage collector ---------------------------------------------------
\* a Limit stays on the heap while the book or an order refers to it
Reachable(b) ==
    {b.asks[i] : i \in 1..Len(b.asks)} \cup {b.bids[i] : i \in 1..Len(b.bids)}
    \cup {b.AskLimits[p] : p \in Prices} \cup {b.BidLimits[p] : p \in Prices}
    \cup {b.orders[o].Limit : o \in DOMAIN b.orders}

\* an Order stays on the heap while it rests in a level or the caller still
\* holds it: the caller holds the order of its last call and the orders of
\* the Matches that call produced
Held(b, o, ms) ==
    {k \in DOMAIN b.orders : b.orders[k].Limit # NoLimit} \cup {o}
    \cup {ms[i].Ask : i \in 1..Len(ms)} \cup {ms[i].Bid : i \in 1..Len(ms)}

Collect(b, o, ms) ==
    [b EXCEPT !.limits = [l \in DOMAIN b.limits \cap Reachable(b) |-> b.limits[l]],
              !.orders = [k \in DOMAIN b.orders \cap Held(b, o, ms) |-> b.orders[k]]]

\* the heap with the newly created order o
WithOrder(b, o, order) ==
    [b EXCEPT !.orders = [k \in DOMAIN b.orders \cup {o} |->
                            IF k = o THEN order ELSE b.orders[k]]]

\* ---- the state machine ---------------------------------------------------------
Book ==
    [orders |-> orders, limits |-> limits, asks |-> asks, bids |-> bids,
     AskLimits |-> AskLimits, BidLimits |-> BidLimits]

SetBook(b) ==
    \E c \in {b} :
        /\ orders' = c.orders
        /\ limits' = c.limits
        /\ asks' = c.asks
        /\ bids' = c.bids
        /\ AskLimits' = c.AskLimits
        /\ BidLimits' = c.BidLimits

\* a handler goroutine that serves no request
Idle == [pc |-> "idle", o |-> 0, price |-> 0, limit |-> NoLimit, data |-> <<>>]

Init ==
    /\ orders = <<>>
    /\ created = 0
    /\ limits = <<>>
    /\ asks = <<>>
    /\ bids = <<>>
    /\ AskLimits = [p \in Prices |-> NoLimit]
    /\ BidLimits = [p \in Prices |-> NoLimit]
    /\ clock = 0
    /\ matches = <<>>
    /\ lastOp = [op |-> "none"]
    /\ panicked = FALSE
    /\ inflight = [h \in Handlers |-> Idle]

\* order := NewOrder(bid, size); ob.PlaceLimitOrder(price, order), with the size
\* taken from S
LimitOrderWith(S) ==
    /\ ~panicked
    /\ created < MaxOrders
    /\ \E bid \in BOOLEAN, size \in S, price \in Prices,
          t \in Now(clock, created = 0) :
          \E r \in {PlaceLimitOrder(WithOrder(Book, created + 1,
                                              NewOrder(bid, size, t)),
                                    price, created + 1)} :
              /\ SetBook(Collect(r.b, created + 1, r.matches))
              /\ created' = created + 1
              /\ clock' = t
              /\ matches' = r.matches
              /\ lastOp' = [op |-> "limit", o |-> created + 1, bid |-> bid,
                            size |-> size, price |-> price]
              /\ panicked' = FALSE
              /\ inflight' = inflight

LimitOrderCall == LimitOrderWith(Sizes)

\* order := NewOrder(bid, size); ob.PlaceMarketOrder(order), with the size taken
\* from S
MarketOrderWith(S) ==
    /\ ~panicked
    /\ created < MaxOrders
    /\ \E bid \in BOOLEAN, size \in S, t \in Now(clock, created = 0) :
          \E b \in {WithOrder(Book, created + 1, NewOrder(bid, size, t))} :
              /\ created' = created + 1
              /\ clock' = t
              /\ lastOp' = [op |-> "market", o |-> created + 1, bid |-> bid,
                            size |-> size, price |-> 0]
              /\ inflight' = inflight
              /\ IF MarketPanics(b, created + 1)
                 THEN /\ SetBook(Collect(b, created + 1, <<>>))
                      /\ matches' = <<>>
                      /\ panicked' = TRUE
                 ELSE \E r \in {PlaceMarketOrder(b, created + 1)} :
                      /\ SetBook(Collect(r.b, created + 1, r.matches))
                      /\ matches' = r.matches
                      /\ panicked' = FALSE

MarketOrderCall == MarketOrderWith(Sizes)

\* ob.CancelOrder(order), for an order the caller holds
CancelOrderCall ==
    /\ ~panicked
    /\ \E o \in DOMAIN orders :
          /\ lastOp' = [op |-> "cancel", o |-> o, bid |-> orders[o].Bid,
                        size |-> orders[o].Size, price |-> 0]
          /\ matches' = <<>>
          /\ clock' = clock
          /\ created' = created
          /\ inflight' = inflight
          /\ IF CancelPanics(Book, o)
             THEN /\ SetBook(Collect(Book, o, <<>>))
                  /\ panicked' = TRUE
             ELSE /\ SetBook(Collect(CancelOrder(Book, o), o, <<>>))
                  /\ panicked' = FALSE

Next == LimitOrderCall \/ MarketOrderCall \/ CancelOrderCall

Spec == Init /\ [][Next]_vars

\* NewOrder and the handlers validate nothing: a caller can also hand in an order
\* of size 0
AnySize == 0..MaxSize

LimitOrderAnySize == LimitOrderWith(AnySize)

MarketOrderAnySize == MarketOrderWith(AnySize)

NextAnySize == LimitOrderAnySize \/ MarketOrderAnySize \/ CancelOrderCall

SpecAnySize == Init /\ [][NextAnySize]_vars

\* ---- the HTTP handlers ---------------------------------------------------------
\* The server runs every request in a goroutine of its own and the handlers take
\* no lock, so the steps of the handlers interleave. Each action below is one
\* stretch of a handler's code; a stretch runs without interruption, which is
\* one of the schedules the running program has.

\* what a handler refers to keeps it on the heap
CollectHandlers(b, infl) ==
    [b EXCEPT !.limits = [l \in DOMAIN b.limits
                               \cap (Reachable(b) \cup {infl[h].limit : h \in Handlers})
                            |-> b.limits[l]],
              !.orders = [k \in {k \in DOMAIN b.orders :
                                    \/ b.orders[k].Limit # NoLimit
                                    \/ \E h \in Handlers : infl[h].o = k}
                            |-> b.orders[k]]]

\* handler h moves to the record r and the book becomes b
HandlerStep(h, r, b) ==
    \E infl \in {[inflight EXCEPT ![h] = r]} :
        /\ inflight' = infl
        /\ SetBook(CollectHandlers(b, infl))
        /\ UNCHANGED <<matches, lastOp, panicked>>

\* handlePlaceOrder up to NewOrder: the request is decoded and the order made
HandlePlaceOrder(h) ==
    /\ inflight[h].pc = "idle"
    /\ created < MaxOrders
    /\ \E type \in {"limit", "market"}, bid \in BOOLEAN, size \in Sizes,
          price \in Prices, t \in Now(clock, created = 0) :
          /\ HandlerStep(h, [Idle EXCEPT !.pc = type, !.o = created + 1,
                                         !.price = IF type = "limit" THEN price
                                                                     ELSE 0],
                         WithOrder(Book, created + 1, NewOrder(bid, size, t)))
          /\ created' = created + 1
          /\ clock' = t

\* ob.PlaceMarketOrder(order); its panic ends the goroutine of this request only
HandleMarketOrder(h) ==
    /\ inflight[h].pc = "market"
    /\ HandlerStep(h, Idle,
                   IF MarketPanics(Book, inflight[h].o) THEN Book
                   ELSE PlaceMarketOrder(Book, inflight[h].o).b)
    /\ UNCHANGED <<created, clock>>

\* ob.PlaceLimitOrder(price, order): the crossing loop
HandleLimitCross(h) ==
    /\ inflight[h].pc = "limit"
    /\ \E r \in {LimitWalk(inflight[h].price, inflight[h].o,
                           IF orders[inflight[h].o].Bid THEN Asks(Book)
                                                        ELSE Bids(Book))} :
          HandlerStep(h, IF IsFilled(r.b, inflight[h].o) THEN Idle
                         ELSE [inflight[h] EXCEPT !.pc = "lookup"],
                      r.b)
    /\ UNCHANGED <<created, clock>>

\* ob.PlaceLimitOrder(price, order): limit = ob.BidLimits[price] or
\* ob.AskLimits[price]
HandleLimitLookup(h) ==
    /\ inflight[h].pc = "lookup"
    /\ HandlerStep(h, [inflight[h] EXCEPT
                          !.pc = "add",
                          !.limit = IF orders[inflight[h].o].Bid
                                    THEN BidLimits[inflight[h].price]
                                    ELSE AskLimits[inflight[h].price]],
                   Book)
    /\ UNCHANGED <<created, clock>>

\* the book after `if limit == nil { ... }` and limit.AddOrder(o), for the limit
\* the handler found before
AddToLimit(b, price, o, found) ==
    LET bid   == b.orders[o].Bid
        limit == IF found = NoLimit THEN FreshLimit(b) ELSE found
        b1    == IF found # NoLimit THEN b
                 ELSE LET withLimit ==
                              [b EXCEPT !.limits =
                                  [k \in DOMAIN b.limits \cup {limit} |->
                                     IF k = limit THEN NewLimit(price)
                                     ELSE b.limits[k]]]
                      IN  IF bid
                          THEN [withLimit EXCEPT !.bids = Append(@, limit),
                                                 !.BidLimits[price] = limit]
                          ELSE [withLimit EXCEPT !.asks = Append(@, limit),
                                                 !.AskLimits[price] = limit]
    IN  AddOrder(b1, limit, o)

\* ob.PlaceLimitOrder(price, order): the level is made when none was found and
\* the order is added to it
HandleLimitAdd(h) ==
    /\ inflight[h].pc = "add"
    /\ HandlerStep(h, Idle, AddToLimit(Book, inflight[h].price, inflight[h].o,
                                       inflight[h].limit))
    /\ UNCHANGED <<created, clock>>

\* the orders of the levels list, as handleGetBook copies them
RECURSIVE CopyOrders(_, _)
CopyOrders(b, list) ==
    IF list = <<>> THEN <<>>
    ELSE [i \in 1..Len(b.limits[Head(list)].Orders) |->
             [Price |-> b.limits[Head(list)].Price,
              Size  |-> b.orders[b.limits[Head(list)].Orders[i]].Size]]
         \o CopyOrders(b, Tail(list))

\* handleGetBook: the loop over ob.Asks(), which sorts ob.asks in place
HandleGetBookAsks(h) ==
    /\ inflight[h].pc = "idle"
    /\ \E b \in {Asks(Book)} :
          HandlerStep(h, [Idle EXCEPT !.pc = "bids", !.data = CopyOrders(b, b.asks)],
                      b)
    /\ UNCHANGED <<created, clock>>

\* handleGetBook: the loop over ob.Bids(), which sorts ob.bids in place, and the
\* response
HandleGetBookBids(h) ==
    /\ inflight[h].pc = "bids"
    /\ HandlerStep(h, Idle, Bids(Book))
    /\ UNCHANGED <<created, clock>>

NextHandlers ==
    \E h \in Handlers :
        \/ HandlePlaceOrder(h)
        \/ HandleMarketOrder(h)
        \/ HandleLimitCross(h)
        \/ HandleLimitLookup(h)
        \/ HandleLimitAdd(h)
        \/ HandleGetBookAsks(h)
        \/ HandleGetBookBids(h)

SpecHandlers == Init /\ [][NextHandlers]_vars

\* ---- helpers of the properties -------------------------------------------------
Range(s) == {s[i] : i \in 1..Len(s)}

RECURSIVE SumSizes(_, _)
SumSizes(ords, s) ==
    IF s = <<>> THEN 0 ELSE ords[Head(s)].Size + SumSizes(ords, Tail(s))

RECURSIVE SumFilled(_)
SumFilled(ms) ==
    IF ms = <<>> THEN 0 ELSE Head(ms).SizeFilled + SumFilled(Tail(ms))

\* the level is in some index of the book
Indexed(b, l) ==
    \/ l \in Range(b.asks) \/ l \in Range(b.bids)
    \/ \E p \in Prices : b.AskLimits[p] = l \/ b.BidLimits[p] = l

\* order k rests, before the step, on the side opposite to an aggressor of side bid
RestingOpp(k, bid) ==
    /\ k \in DOMAIN orders
    /\ orders[k].Limit # NoLimit
    /\ orders[k].Bid # bid

PriceOf(k) == limits[orders[k].Limit].Price

\* price p is better than q on the side opposite to an aggressor of side bid
Better(bid, p, q) == IF bid THEN p < q ELSE p > q

\* the opposite side's aggregate volume seen by an aggressor of side bid
OppositeVolume(b, bid) == IF bid THEN AskTotalVolume(b) ELSE BidTotalVolume(b)

\* the orders resting in some level, oldest first
RECURSIVE RestingUpTo(_)
RestingUpTo(n) ==
    IF n = 0 THEN <<>>
    ELSE IF n \in DOMAIN orders /\ orders[n].Limit # NoLimit
         THEN Append(RestingUpTo(n - 1), n)
         ELSE RestingUpTo(n - 1)

Resting == RestingUpTo(created)

\* the step is a completed call of the named operation
Completed(op) == lastOp'.op = op /\ ~panicked' /\ ~panicked

\* ---- C1 ------------------------------------------------------------------------
\* C1: in every reachable state every price level's TotalVolume equals the sum
\* of the Size of the orders in its Orders sequence.
C1_VolumeIsSum ==
    \A l \in DOMAIN limits :
        limits[l].TotalVolume = SumSizes(orders, limits[l].Orders)

\* a market order has partially consumed a level that still holds two orders
C1_Witness ==
    /\ lastOp.op = "market" /\ ~panicked
    /\ \E l \in DOMAIN limits :
          /\ Len(limits[l].Orders) >= 2
          /\ \E i \in 1..Len(matches) :
                /\ matches[i].Price = limits[l].Price
                /\ matches[i].SizeFilled > 0
                /\ (matches[i].Ask \in Range(limits[l].Orders)
                    \/ matches[i].Bid \in Range(limits[l].Orders))

\* ---- C2 ------------------------------------------------------------------------
\* C2: after every completed operation a price level is present in its side's
\* index (the level list and the price map) if and only if it holds at least
\* one resting order with remaining size > 0.
C2_LevelLifecycle ==
    ~panicked =>
        \A l \in DOMAIN limits :
            LET holds == \E i \in 1..Len(limits[l].Orders) :
                             orders[limits[l].Orders[i]].Size > 0
            IN  /\ (l \in Range(asks) \/ l \in Range(bids)) <=> holds
                /\ (\E p \in Prices : AskLimits[p] = l \/ BidLimits[p] = l) <=> holds

\* ---- C3 ------------------------------------------------------------------------
\* C3: a price level whose Orders sequence PlaceMarketOrder empties is in no
\* level list and no price map when the call returns.
C3_DrainedLevelRemoved ==
    [][Completed("market") =>
        \A l \in DOMAIN limits :
            (/\ limits[l].Orders # <<>>
             /\ (l \in DOMAIN limits' => limits'[l].Orders = <<>>))
            => ~Indexed(Book', l)]_vars

\* ---- C4 ------------------------------------------------------------------------
\* C4: when CancelOrder removes the last resting order of a price level, the
\* level is in no level list and no price map afterwards.
C4_CancelRemovesEmptyLevel ==
    [][Completed("cancel") =>
        LET l == orders[lastOp'.o].Limit
        IN  limits[l].Orders = <<lastOp'.o>> => ~Indexed(Book', l)]_vars

\* ---- C5 ------------------------------------------------------------------------
\* C5: a market order larger than the opposite side's aggregate volume ends
\* without a panic, and leaves the level lists, the price maps, the levels and
\* every resting order as they were.
C5_InsufficientLiquidityRecoverable ==
    [][(/\ lastOp'.op = "market"
        /\ ~panicked
        /\ lastOp'.size > OppositeVolume(Book, lastOp'.bid))
       => /\ ~panicked'
          /\ asks' = asks /\ bids' = bids /\ limits' = limits
          /\ AskLimits' = AskLimits /\ BidLimits' = BidLimits
          /\ \A k \in DOMAIN orders :
                orders[k].Limit # NoLimit => orders'[k] = orders[k]]_vars

\* ---- C6 ------------------------------------------------------------------------
\* C6: a market order with 0 < size <= opposite aggregate volume returns with
\* the aggressor's size 0, and the sum of SizeFilled over the returned matches
\* equals the aggressor's original size, the total decrease of the resting
\* orders' sizes and the decrease of the opposite side's aggregate volume.
C6_MarketOrderConservation ==
    [][(/\ lastOp'.op = "market"
        /\ ~panicked
        /\ lastOp'.size > 0
        /\ lastOp'.size <= OppositeVolume(Book, lastOp'.bid))
       => /\ ~panicked'
          /\ orders'[lastOp'.o].Size = 0
          /\ SumFilled(matches') = lastOp'.size
          /\ SumSizes(orders, Resting) - SumSizes(orders', Resting) = lastOp'.size
          /\ OppositeVolume(Book, lastOp'.bid)
               - OppositeVolume(Book', lastOp'.bid) = lastOp'.size]_vars

\* a market order was filled by two resting orders
C6_Witness ==
    /\ lastOp.op = "market" /\ ~panicked
    /\ orders[lastOp.o].Size = 0
    /\ \E i, j \in 1..Len(matches) :
          /\ i < j
          /\ matches[i].SizeFilled > 0
          /\ matches[j].SizeFilled > 0

\* ---- C7 ------------------------------------------------------------------------
\* C7: during PlaceMarketOrder a resting order at a worse opposite-side price
\* is reduced only if every order at every better opposite-side price has
\* been filled, and the returned matches are ordered best price first.
C7_PricePriority ==
    [][Completed("market") =>
        /\ \A a, c \in DOMAIN orders :
              (/\ RestingOpp(a, lastOp'.bid)
               /\ RestingOpp(c, lastOp'.bid)
               /\ Better(lastOp'.bid, PriceOf(a), PriceOf(c))
               /\ orders'[c].Size < orders[c].Size)
              => orders'[a].Size = 0
        /\ \A i, j \in 1..Len(matches') :
              i < j => ~Better(lastOp'.bid, matches'[j].Price, matches'[i].Price)]_vars

\* a market order consumed liquidity at two prices
C7_Witness ==
    /\ lastOp.op = "market" /\ ~panicked
    /\ \E i, j \in 1..Len(matches) :
          /\ matches[i].Price # matches[j].Price
          /\ matches[i].SizeFilled > 0
          /\ matches[j].SizeFilled > 0

\* ---- C8 ------------------------------------------------------------------------
\* C8: in every reachable state the orders of a price level are sequenced by
\* arrival, oldest first (orders are numbered in order of arrival), also when
\* orders share a timestamp.
C8_TimePriority ==
    \A l \in DOMAIN limits :
        \A i, j \in 1..Len(limits[l].Orders) :
            i < j => limits[l].Orders[i] < limits[l].Orders[j]

\* ---- C9 ------------------------------------------------------------------------
\* C9: CancelOrder on an order that is not resting (cancelled or filled
\* before) does not panic and leaves the book unchanged.
C9_SecondCancelReported ==
    [][(/\ lastOp'.op = "cancel"
        /\ ~panicked
        /\ orders[lastOp'.o].Limit = NoLimit)
       => /\ ~panicked'
          /\ asks' = asks /\ bids' = bids /\ limits' = limits
          /\ AskLimits' = AskLimits /\ BidLimits' = BidLimits
          /\ \A k \in DOMAIN orders :
                (k = lastOp'.o \/ orders[k].Limit # NoLimit)
                => orders'[k] = orders[k]]_vars

\* ---- C10 -----------------------------------------------------------------------
\* C10: PlaceLimitOrder reduces only resting orders of the opposite side in
\* levels whose price is marketable against the limit price (asks <= price for
\* a bid, bids >= price for an ask); it consumes them best price first, each
\* resting order at most once; and it stops only when the incoming order is
\* filled or no marketable resting order is left.
C10_LimitCrossing ==
    [][Completed("limit") =>
        LET bid   == lastOp'.bid
            price == lastOp'.price
            o     == lastOp'.o
        IN  /\ \A k \in DOMAIN orders \cap DOMAIN orders' :
                  orders'[k].Size # orders[k].Size =>
                      /\ RestingOpp(k, bid)
                      /\ ~Better(bid, price, PriceOf(k))
                      /\ orders'[k].Size < orders[k].Size
            /\ \A a, c \in DOMAIN orders :
                  (/\ RestingOpp(a, bid)
                   /\ RestingOpp(c, bid)
                   /\ Better(bid, PriceOf(a), PriceOf(c))
                   /\ orders'[c].Size < orders[c].Size)
                  => orders'[a].Size = 0
            /\ \A i, j \in 1..Len(matches') :
                  i < j =>
                      /\ ~Better(bid, matches'[j].Price, matches'[i].Price)
                      /\ matches'[i].Ask # matches'[j].Ask
                         \/ matches'[i].Bid # matches'[j].Bid
            /\ orders'[o].Size > 0 =>
                  \A k \in DOMAIN orders :
                      (RestingOpp(k, bid) /\ ~Better(bid, price, PriceOf(k)))
                      => orders'[k].Size = 0]_vars

\* a limit order crossed two price levels, emptying the first
C10_Witness ==
    /\ lastOp.op = "limit" /\ ~panicked
    /\ \E i, j \in 1..Len(matches) :
          /\ i < j
          /\ matches[i].Price # matches[j].Price
          /\ matches[i].SizeFilled > 0
          /\ matches[j].SizeFilled > 0

\* ---- C11 -----------------------------------------------------------------------
\* C11: after PlaceLimitOrder, an incoming order with remaining size > 0 is
\* the last order of the level at the limit price on its own side (the one
\* the price map held, or a new one), its Limit names that level, and the
\* level's volume grew by exactly the remaining size; an incoming order that
\* was filled is in no level and its Limit is nil.
C11_LimitOrderRests ==
    [][Completed("limit") =>
        LET o     == lastOp'.o
            price == lastOp'.price
            l     == orders'[o].Limit
        IN  IF orders'[o].Size > 0
            THEN /\ l # NoLimit
                 /\ limits'[l].Price = price
                 /\ IF lastOp'.bid
                    THEN /\ BidLimits'[price] = l /\ l \in Range(bids')
                         /\ l \in DOMAIN limits => BidLimits[price] = l
                    ELSE /\ AskLimits'[price] = l /\ l \in Range(asks')
                         /\ l \in DOMAIN limits => AskLimits[price] = l
                 /\ limits'[l].Orders # <<>>
                 /\ limits'[l].Orders[Len(limits'[l].Orders)] = o
                 /\ limits'[l].TotalVolume =
                       (IF l \in DOMAIN limits THEN limits[l].TotalVolume ELSE 0)
                       + orders'[o].Size
            ELSE /\ l = NoLimit
                 /\ \A k \in DOMAIN limits' : o \notin Range(limits'[k].Orders)]_vars

\* a limit order was partly filled by crossing and rests with what is left
C11_Witness ==
    /\ lastOp.op = "limit" /\ ~panicked
    /\ orders[lastOp.o].Limit # NoLimit
    /\ orders[lastOp.o].Size < lastOp.size

\* ---- C12 -----------------------------------------------------------------------
Min(x, y) == IF x <= y THEN x ELSE y

\* the resting order of a Match made for an aggressor of side bid
RestingOf(m, bid) == IF bid THEN m.Ask ELSE m.Bid

\* C12: every Match of a market or limit crossing has the price of the resting
\* order's level, an ask-side order as Ask and a bid-side order as Bid, and
\* SizeFilled = min(resting size, aggressor size) as they were before the fill.
C12_MatchRecord ==
    [][(Completed("limit") \/ Completed("market")) =>
        \A i \in 1..Len(matches') :
            LET m    == matches'[i]
                rest == RestingOf(m, lastOp'.bid)
            IN  /\ {m.Ask, m.Bid} = {rest, lastOp'.o}
                /\ ~orders'[m.Ask].Bid
                /\ orders'[m.Bid].Bid
                /\ rest \in DOMAIN orders
                /\ orders[rest].Limit # NoLimit
                /\ m.Price = limits[orders[rest].Limit].Price
                /\ m.SizeFilled =
                      Min(orders[rest].Size,
                          lastOp'.size - SumFilled(SubSeq(matches', 1, i - 1)))]_vars

\* a limit order was matched at a price other than its limit price
C12_Witness ==
    /\ lastOp.op = "limit" /\ ~panicked
    /\ \E i \in 1..Len(matches) :
          /\ matches[i].Price # lastOp.price
          /\ matches[i].SizeFilled > 0

\* ---- C13 -----------------------------------------------------------------------
\* C13: PlaceMarketOrder emits no Match once the aggressor is filled: every
\* returned Match has SizeFilled > 0.
C13_NoMatchAfterFilled ==
    (lastOp.op = "market" /\ ~panicked) =>
        \A i \in 1..Len(matches) : matches[i].SizeFilled > 0

\* ---- C14 ----------------------------------------------------------------------
\* C14: a limit or market order placed with size 0 is rejected: the call leaves
\* the level lists, the price maps, the levels and every order that was resting
\* as they were, and PlaceMarketOrder returns no Match (PlaceLimitOrder returns
\* nothing to its caller).
C14_ZeroSizeRejected ==
    [][(lastOp'.op \in {"limit", "market"} /\ lastOp'.size = 0 /\ ~panicked)
        => /\ ~panicked'
           /\ lastOp'.op = "market" => matches' = <<>>
           /\ asks' = asks /\ bids' = bids
           /\ AskLimits' = AskLimits /\ BidLimits' = BidLimits
           /\ limits' = limits
           /\ \A k \in DOMAIN orders :
                 orders[k].Limit # NoLimit
                     => k \in DOMAIN orders' /\ orders'[k] = orders[k]]_vars

\* ---- C15 ----------------------------------------------------------------------
\* handler h is inside PlaceLimitOrder: the crossing loop has run and the order
\* is not yet in its level
Writing(h) == inflight[h].pc \in {"lookup", "add"}

\* handler h is inside handleGetBook: the asks are copied, the bids not yet
Reading(h) == inflight[h].pc = "bids"

\* C15: at any instant at most one handler is inside a mutating operation of
\* the book, and no handler is in the middle of reading the book while another
\* is in the middle of a mutating operation.
C15_SingleWriter ==
    /\ Cardinality({h \in Handlers : Writing(h)}) <= 1
    /\ \A h, g \in Handlers : ~(Reading(h) /\ Writing(g))

\* ---- C16 ----------------------------------------------------------------------
\* C16: CancelOrder on a resting order takes exactly that order out of its
\* level's sequence, keeping the others in their order, lowers the level's
\* volume by the order's size and clears the order's Limit; every other resting
\* order and every other level stay as they were.
C16_CancelFrame ==
    [][(/\ lastOp'.op = "cancel"
        /\ ~panicked
        /\ orders[lastOp'.o].Limit # NoLimit)
       => LET o == lastOp'.o
              l == orders[o].Limit
          IN  /\ ~panicked'
              /\ limits'[l].Orders = SelectSeq(limits[l].Orders, LAMBDA k : k # o)
              /\ limits'[l].TotalVolume = limits[l].TotalVolume - orders[o].Size
              /\ limits'[l].Price = limits[l].Price
              /\ orders'[o].Limit = NoLimit
              /\ \A k \in DOMAIN orders \ {o} :
                    orders[k].Limit # NoLimit => orders'[k] = orders[k]
              /\ \A m \in DOMAIN limits \ {l} :
                    m \in DOMAIN limits' /\ limits'[m] = limits[m]]_vars

\* ---- C17 ----------------------------------------------------------------------
\* no order of size 0 is in a level, and an order's Limit is l exactly when the
\* order is in the sequence of l
MembershipOk ==
    /\ \A l \in DOMAIN limits :
          \A k \in Range(limits[l].Orders) :
              k \in DOMAIN orders /\ orders[k].Size > 0
    /\ \A k \in DOMAIN orders :
          /\ orders[k].Size >= 0
          /\ orders[k].Limit # NoLimit => orders[k].Limit \in DOMAIN limits
          /\ \A l \in DOMAIN limits :
                orders[k].Limit = l <=> k \in Range(limits[l].Orders)

\* no order's size grows: an order made by this step has at most the size it
\* was made with
SizeShrinks ==
    \A k \in DOMAIN orders' :
        /\ k \in DOMAIN orders => orders'[k].Size <= orders[k].Size
        /\ k \notin DOMAIN orders => orders'[k].Size <= lastOp'.size

\* C17: in every state reached by the operations no order of size 0 is a member
\* of a level, an order's Limit names level l if and only if the order is in
\* l's sequence (a filled or cancelled order has none), and no step makes an
\* order's size greater or negative.
C17_OrderMembership == []MembershipOk /\ [][SizeShrinks]_vars

\* a crossing filled a resting order, which left its level, and the aggressor
\* rests with what is left of it
C17_Witness ==
    /\ lastOp.op = "limit" /\ ~panicked
    /\ orders[lastOp.o].Limit # NoLimit
    /\ orders[lastOp.o].Size < lastOp.size
    /\ \E i \in 1..Len(matches) :
          LET rest == RestingOf(matches[i], lastOp.bid)
          IN  orders[rest].Size = 0 /\ orders[rest].Limit = NoLimit

\* ---- C18 ----------------------------------------------------------------------
\* the levels a side holds, in its list or in its price map
AskSide == Range(asks) \cup ({AskLimits[p] : p \in Prices} \ {NoLimit})

BidSide == Range(bids) \cup ({BidLimits[p] : p \in Prices} \ {NoLimit})

\* C18: in every state reached by limit orders, market orders and cancels of
\* positive size, every level of the bid side, empty ones included, has a price
\* strictly below the price of every level of the ask side.
C18_NeverCrossed ==
    \A a \in AskSide, b \in BidSide : limits[b].Price < limits[a].Price

\* a limit order crossed, was partly filled and rests, and both sides hold levels
C18_Witness ==
    /\ lastOp.op = "limit" /\ ~panicked
    /\ Len(matches) > 0
    /\ orders[lastOp.o].Limit # NoLimit
    /\ AskSide # {} /\ BidSide # {}

\* ---- C19 ----------------------------------------------------------------------
\* C19: a call of PlaceMarketOrder leaves the level list and the price map of
\* the aggressor's own side as they were, although clearLimit is called with
\* the aggressor's side flag.
C19_MarketOwnSideUntouched ==
    [][(lastOp'.op = "market" /\ ~panicked)
        => IF lastOp'.bid
           THEN bids' = bids /\ BidLimits' = BidLimits
           ELSE asks' = asks /\ AskLimits' = AskLimits]_vars

\* a market order drained a level, so that clearLimit was called, while its own
\* side holds a level
C19_Witness ==
    /\ lastOp.op = "market" /\ ~panicked
    /\ (IF lastOp.bid THEN bids ELSE asks) # <<>>
    /\ \E i \in 1..Len(matches) :
          /\ orders[RestingOf(matches[i], lastOp.bid)].Size = 0
          /\ \E l \in DOMAIN limits :
                /\ limits[l].Price = matches[i].Price
                /\ limits[l].Orders = <<>>

\* ---- C20 ----------------------------------------------------------------------
\* the list and the map hold the same levels, each under the key of its Price,
\* and no two places of the list hold the same price
SameLevels(list, map) ==
    /\ Range(list) = {map[p] : p \in Prices} \ {NoLimit}
    /\ \A p \in Prices : map[p] # NoLimit => limits[map[p]].Price = p
    /\ \A i, j \in 1..Len(list) :
          i # j => limits[list[i]].Price # limits[list[j]].Price

\* the sum of the sizes of the orders resting on the side bid
RestingSize(bid) ==
    SumSizes(orders, SelectSeq(Resting, LAMBDA k : orders[k].Bid = bid))

====
